---- MODULE Spec2Model ----
(***************************************************************************)
(* A model of the two transcriber scripts of osrehe/speech2text:           *)
(*   src/transcriber.py     (variant "basic")                               *)
(*   src/transcriber_pb.py  (variant "pb", with progress reporting)         *)
(* One behaviour of Spec is one run of one script, from argument parsing   *)
(* to process exit.  The external collaborators (argparse, the file        *)
(* system, whisper, ffprobe, tqdm) are the environment: each call to one   *)
(* of them has an outcome drawn from the outcomes that call can have, and  *)
(* the outcome drawn is recorded in env.                                   *)
(*                                                                         *)
(* Units: times (segment start/end, audio duration, bar position) are      *)
(* integers in milliseconds; confidence scores (avg_logprob) are integers  *)
(* in thousandths.  Strings the code slices, lowers or writes are          *)
(* sequences of one-character strings.                                     *)
(***************************************************************************)
EXTENDS Integers, Sequences, FiniteSets, TLC

VARIABLES
    variant,      \* which script runs: "basic" or "pb"
    argv,         \* the command line
    audioExists,  \* os.path.exists(audio_file_path)
    pc,           \* position of the run
    args,         \* argparse's namespace (after parse_args)
    env,          \* outcome of each external call made so far
    calls,        \* external collaborators invoked, in order
    stdout,       \* what print() wrote, in order
    file,         \* the output file: [exists, content]
    audio_duration, \* transcribe_audio's local (pb)
    cb,           \* the ProgressCallback object: [made, audio_duration, pbar]
    result,       \* transcribe_audio's result (main's, once it returned)
    stats,        \* main's verbose statistics (pb)
    exc,          \* the exception that ended the run, if any
    exitStatus,   \* "running", or how the process ended
    run,          \* 1 for the run, 2 for the repeated run of SpecPair
    first         \* outcome of run 1, kept for comparison in SpecPair

vars == <<variant, argv, audioExists, pc, args, env, calls, stdout, file,
          audio_duration, cb, result, stats, exc, exitStatus, run, first>>

(***************************************************************************)
(* Bounds                                                                  *)
(***************************************************************************)
MaxSegments == 2

(***************************************************************************)
(* Optional values (None or a value)                                       *)
(***************************************************************************)
NoStr == [some |-> FALSE, v |-> <<>>]
SomeStr(s) == [some |-> TRUE, v |-> s]
NoNum == [some |-> FALSE, v |-> 0]
SomeNum(n) == [some |-> TRUE, v |-> n]

\* Python truthiness of an optional string: None and "" are false
TruthyStr(o) == o.some /\ o.v # <<>>
\* Python truthiness of an optional float: None and 0.0 are false
TruthyNum(o) == o.some /\ o.v # 0

Range(s) == {s[i] : i \in 1..Len(s)}

(***************************************************************************)
(* Path(audio_file_path).suffix.lower()                                    *)
(***************************************************************************)
\* index of the last occurrence of c in s, 0 when there is none
RFind(s, c) ==
    LET I == {i \in 1..Len(s) : s[i] = c}
    IN IF I = {} THEN 0 ELSE CHOOSE i \in I : \A j \in I : j <= i

\* PurePath.name: the last component of the path
PathName(p) == SubSeq(p, RFind(p, "/") + 1, Len(p))

\* PurePath.suffix: from the last dot of the name, unless the dot is the
\* first or the last character of the name (or there is none)
PathSuffix(p) ==
    LET name == PathName(p)
        i == RFind(name, ".")
    IN IF 1 < i /\ i < Len(name) THEN SubSeq(name, i, Len(name)) ELSE <<>>

LowerChar(c) ==
    CASE c = "M" -> "m"
      [] c = "P" -> "p"
      [] c = "W" -> "w"
      [] c = "A" -> "a"
      [] c = "V" -> "v"
      [] c = "T" -> "t"
      [] c = "X" -> "x"
      [] OTHER -> c

Lower(s) == [i \in 1..Len(s) |-> LowerChar(s[i])]

supported_formats ==
    { <<".", "m", "p", "3">>, <<".", "w", "a", "v">>, <<".", "m", "4", "a">>,
      <<".", "f", "l", "a", "c">>, <<".", "o", "g", "g">>,
      <<".", "w", "m", "a">>, <<".", "a", "a", "c">> }

(***************************************************************************)
(* Inputs                                                                  *)
(***************************************************************************)
AudioPaths ==
    { <<"a", ".", "m", "p", "3">>,            \* a.mp3
      <<"a", ".", "W", "a", "V">>,            \* a.WaV
      <<"a", ".", "t", "x", "t">>,            \* a.txt
      <<"a">>,                                \* a       (no extension)
      <<".", "m", "p", "3">>,                 \* .mp3    (a hidden file)
      <<"d", ".", "m", "p", "3", "/", "a">> } \* d.mp3/a (dot in a directory)

ModelChoices == {"tiny", "base", "small", "medium", "large"}

OutPath == <<"o", ".", "t", "x", "t">>

\* a command line: the positional audio file (absent or given), -m, -l, -o,
\* -v, --no-progress, -h
ArgvOf(audio, m, l, o, v, np, h) ==
    [audio_file |-> audio, model |-> m, language |-> l, output |-> o,
     verbose |-> v, no_progress |-> np, help |-> h]

GoodArgvs ==
    { ArgvOf(SomeStr(a), "base", l, o, v, np, FALSE) :
        a \in AudioPaths,
        l \in {NoStr, SomeStr(<<"e", "s">>)},
        o \in {NoStr, SomeStr(<<>>), SomeStr(OutPath)},
        v \in BOOLEAN,
        np \in BOOLEAN }

OddArgvs ==
    { ArgvOf(NoStr, "base", NoStr, NoStr, FALSE, FALSE, FALSE),
      ArgvOf(SomeStr(<<"a", ".", "m", "p", "3">>), "huge", NoStr, NoStr, FALSE, FALSE, FALSE),
      ArgvOf(SomeStr(<<"a", ".", "m", "p", "3">>), "tiny", NoStr, NoStr, TRUE, FALSE, FALSE),
      ArgvOf(NoStr, "base", NoStr, NoStr, FALSE, FALSE, TRUE) }

Argvs == GoodArgvs \cup OddArgvs

\* the output file before the run: absent, or holding earlier content
NoFile == [exists |-> FALSE, content |-> <<>>]
OldFile == [exists |-> TRUE, content |-> <<"o", "l", "d">>]

(***************************************************************************)
(* The Transcription Result returned by model.transcribe                   *)
(***************************************************************************)
\* a segment dict: start, end, text, and optionally avg_logprob (lp);
\* hasStart is FALSE for a dict without the 'start' key
SegA == [start |-> 0, end |-> 1234, text |-> <<"h">>, lp |-> SomeNum(-300), hasStart |-> TRUE]
SegB == [start |-> 1234, end |-> 2508, text |-> <<"i">>, lp |-> SomeNum(-1200), hasStart |-> TRUE]
SegC == [start |-> 2508, end |-> 3001, text |-> <<"!">>, lp |-> NoNum, hasStart |-> TRUE]
SegBad == [start |-> 0, end |-> 3001, text |-> <<"?">>, lp |-> SomeNum(-700), hasStart |-> FALSE]

Segments == {SegA, SegB, SegC, SegBad}

SeqsUpTo(S, n) == UNION {[1..k -> S] : k \in 0..n}

Texts == { <<>>, <<"h", "i">> }

Results ==
    { [text |-> t, language |-> "es", segments |-> ss] :
        t \in Texts, ss \in SeqsUpTo(Segments, MaxSegments) }

NoResult == [text |-> <<>>, language |-> "", segments |-> <<>>]

\* every segment has the keys the scripts read
WellFormed(r) == \A i \in 1..Len(r.segments) : r.segments[i].hasStart

(***************************************************************************)
(* Exceptions and main()'s except clauses                                  *)
(***************************************************************************)
NoExc == [type |-> "none", origin |-> "none"]

\* isinstance(e, Exception): KeyboardInterrupt derives from BaseException only
IsException(type) == type # "KeyboardInterrupt"

\* does an except clause for class cls catch an exception of this type
Catches(cls, type) ==
    \/ cls = type
    \/ cls = "Exception" /\ IsException(type)

\* a faulty variant: the generic handler of the basic script does not exit with 1
ExceptClausesBasic_NoExit ==
    << [cls |-> "FileNotFoundError", tag |-> "Error", code |-> "1"],
       [cls |-> "Exception", tag |-> "Error inesperado", code |-> "0"] >>

\* a faulty variant: the generic clause comes first
ExceptClausesPb_GenericFirst ==
    << [cls |-> "Exception", tag |-> "Error inesperado", code |-> "1"],
       [cls |-> "FileNotFoundError", tag |-> "Error", code |-> "1"],
       [cls |-> "KeyboardInterrupt", tag |-> "interrumpida", code |-> "1"] >>

\* the except clauses of main(), in order: the class caught, what is
\* printed, the exit code
ExceptClausesBasic ==
    << [cls |-> "FileNotFoundError", tag |-> "Error", code |-> "1"],
       [cls |-> "Exception", tag |-> "Error inesperado", code |-> "1"] >>

ExceptClausesPb ==
    << [cls |-> "FileNotFoundError", tag |-> "Error", code |-> "1"],
       [cls |-> "KeyboardInterrupt", tag |-> "interrumpida", code |-> "1"],
       [cls |-> "Exception", tag |-> "Error inesperado", code |-> "1"] >>

ExceptClauses(v) == IF v = "pb" THEN ExceptClausesPb ELSE ExceptClausesBasic

\* the first clause that catches the exception; 0 when none does
Handler(v, type) ==
    LET cl == ExceptClauses(v)
        I == {i \in 1..Len(cl) : Catches(cl[i].cls, type)}
    IN IF I = {} THEN 0 ELSE CHOOSE i \in I : \A j \in I : i <= j

Msg(tag, val) == [tag |-> tag, val |-> val]

\* an exception of this type leaves the try block of main(): the handler
\* prints and calls sys.exit; an exception no clause catches ends the
\* interpreter (a KeyboardInterrupt: death by SIGINT, status 130 in a shell)
Raise(type, origin, out) ==
    LET h == Handler(variant, type)
        cl == ExceptClauses(variant)
    IN /\ exc' = [type |-> type, origin |-> origin]
       /\ pc' = "done"
       /\ IF h = 0
          THEN /\ stdout' = out
               /\ exitStatus' = "SIGINT"
          ELSE /\ stdout' = Append(out, Msg(cl[h].tag, origin))
               /\ exitStatus' = cl[h].code

\* an environment outcome: any of S, or, when this call's outcome is
\* already recorded (the repeated run of SpecPair), that outcome
Pick(field, S) == IF env[field] = "unset" THEN S ELSE {env[field]} \cap S

NoEnv ==
    [parse |-> "unset", load |-> "unset", probe |-> "unset", duration |-> 0,
     transcribe |-> "unset", result |-> NoResult, segments |-> "unset",
     save |-> "unset", print |-> "unset", verbose |-> "unset", file0 |-> NoFile]

(***************************************************************************)
(* ProgressCallback                                                        *)
(***************************************************************************)
NoBar == [made |-> FALSE, n |-> 0, total |-> 0, closed |-> FALSE]
NoCb == [made |-> FALSE, audio_duration |-> NoNum, pbar |-> NoBar, closeCalls |-> 0]

\* ProgressCallback.__init__
CbInit(d) == [made |-> TRUE, audio_duration |-> d, pbar |-> NoBar, closeCalls |-> 0]

\* int(x) for x >= 0 seconds given in milliseconds: whole seconds
IntSeconds(ms) == ms \div 1000

Min(a, b) == IF a <= b THEN a ELSE b

\* the total of the bar created on the first chunk
BarTotal(d) == IF ~d.some THEN 100 ELSE IntSeconds(d.v)

\* ProgressCallback.__call__(chunk); chunk = [timed, end]: timed is
\* hasattr(chunk, 'start') and hasattr(chunk, 'end').  n is in milliseconds,
\* total in seconds.
CbCall(c, chunk) ==
    LET bar == IF ~c.pbar.made
               THEN [made |-> TRUE, n |-> 0, total |-> BarTotal(c.audio_duration), closed |-> FALSE]
               ELSE c.pbar
        n2 == IF chunk.timed
              THEN IF TruthyNum(c.audio_duration)
                   THEN Min(chunk.end, c.audio_duration.v)
                   ELSE bar.n
              ELSE IF bar.n < bar.total * 1000
                   THEN bar.n + 1000
                   ELSE bar.n
    IN [c EXCEPT !.pbar = [bar EXCEPT !.n = n2]]

\* `if self.pbar:`: None is false; a tqdm bar with a total defines __bool__
\* as total > 0
BarTruthy(bar) == bar.made /\ bar.total > 0

\* ProgressCallback.close()
CbClose(c) ==
    [c EXCEPT !.closeCalls = @ + 1,
              !.pbar = IF BarTruthy(c.pbar) THEN [c.pbar EXCEPT !.closed = TRUE] ELSE c.pbar]

(***************************************************************************)
(* Pieces of transcribe_audio and main                                     *)
(***************************************************************************)
\* parser.parse_args(): "error" is argparse's exit 2 (a missing audio file,
\* a model outside the choices, an option the parser does not declare),
\* "help" its exit 0 after printing the help
ParseArgs(v, a) ==
    IF a.model \notin ModelChoices THEN "error"
    ELSE IF a.help THEN "help"
    ELSE IF ~a.audio_file.some \/ (a.no_progress /\ v = "basic") THEN "error"
    ELSE "ok"

NoArgs ==
    [audio_file |-> <<>>, model |-> "", language |-> NoStr, output |-> NoStr,
     verbose |-> FALSE, no_progress |-> FALSE]

Namespace(a) ==
    [audio_file |-> a.audio_file.v, model |-> a.model, language |-> a.language,
     output |-> a.output, verbose |-> a.verbose, no_progress |-> a.no_progress]

\* show_progress = not args.no_progress (the basic script has no progress)
ShowProgress == variant = "pb" /\ ~args.no_progress

\* a faulty variant: the existence check never raises
InputMissing_Never(exists) == FALSE

\* `if not os.path.exists(audio_file_path)`
InputMissing(exists) == ~exists

\* a faulty variant: the suffix is compared without .lower()
NeedsWarning_NoLower(path) == PathSuffix(path) \notin supported_formats

\* `if file_extension not in supported_formats`
NeedsWarning(path) == Lower(PathSuffix(path)) \notin supported_formats

\* the exception the body of get_audio_duration's try raises, if any
ProbeRaises(o) ==
    CASE o = "missing" -> "FileNotFoundError"      \* subprocess.run: no ffprobe
      [] o = "garbage" -> "ValueError"             \* float() of the output
      [] o = "KeyboardInterrupt" -> "KeyboardInterrupt"
      [] OTHER -> "none"

\* a faulty variant: get_audio_duration without its try/except
ProbeExceptCatches_Nothing(type) == FALSE

\* get_audio_duration's `except:` names no class: it catches everything
ProbeExceptCatches(type) == TRUE

\* get_audio_duration(audio_path) under probe outcome o (d: the duration
\* ffprobe reports when o = "ok"): the exception that leaves it, the value
GetAudioDuration(o, d) ==
    LET r == ProbeRaises(o)
    IN IF r # "none"
       THEN IF ProbeExceptCatches(r)
            THEN [raised |-> "none", value |-> NoNum]
            ELSE [raised |-> r, value |-> NoNum]
       ELSE IF o = "ok"
            THEN [raised |-> "none", value |-> SomeNum(d)]
            ELSE [raised |-> "none", value |-> NoNum]

\* durations ffprobe may report, in milliseconds
Durations == {0, 2500}

\* a faulty variant: the file is opened in append mode
WriteFile_Append(f, text) == [exists |-> TRUE, content |-> f.content \o text]

\* open(output_file, 'w') truncates; f.write(text) writes the text
WriteFile(f, text) == [exists |-> TRUE, content |-> text]
Truncated == [exists |-> TRUE, content |-> <<>>]

\* "{x:6.2f}" of a time given in milliseconds: hundredths of a second,
\* rounded to nearest (the times of the model are never a tie)
Fmt2(ms) == (ms + 5) \div 10

\* segment.get('avg_logprob', 0)
Confidence(seg) == IF seg.lp.some THEN seg.lp.v ELSE 0

\* the colour code of a confidence (in thousandths)
Color(conf) ==
    IF conf > -500 THEN "92m" ELSE IF conf > -1000 THEN "93m" ELSE "91m"

\* a faulty variant: enumerate without its start argument
Enumerate_FromZero(segs) == [k \in 1..Len(segs) |-> [i |-> k - 1, segment |-> segs[k]]]

\* enumerate(result['segments'], 1)
Enumerate(segs) == [k \in 1..Len(segs) |-> [i |-> k, segment |-> segs[k]]]

\* the line printed for one segment
SegmentLine(v, e) ==
    IF v = "pb"
    THEN Msg("segment", [idx |-> e.i, start |-> Fmt2(e.segment.start),
                         end |-> Fmt2(e.segment.end), text |-> e.segment.text,
                         conf |-> Confidence(e.segment),
                         color |-> Color(Confidence(e.segment))])
    ELSE Msg("segment", [idx |-> e.i, start |-> Fmt2(e.segment.start),
                         end |-> Fmt2(e.segment.end), text |-> e.segment.text])

\* how many segments a loop reading segment['start'] handles before it
\* meets one without the key (all of them when there is none)
GoodPrefix(segs) ==
    LET B == {i \in 1..Len(segs) : ~segs[i].hasStart}
    IN IF B = {} THEN Len(segs) ELSE (CHOOSE i \in B : \A j \in B : i <= j) - 1

\* the lines the verbose loop prints
SegmentLines(v, segs) ==
    LET en == Enumerate(segs)
    IN [k \in 1..GoodPrefix(segs) |-> SegmentLine(v, en[k])]

RECURSIVE SumConfidence(_)
\* sum(seg.get('avg_logprob', 0) for seg in segments)
SumConfidence(segs) ==
    IF segs = <<>> THEN 0
    ELSE Confidence(Head(segs)) + SumConfidence(Tail(segs))

\* a faulty variant: the mean is taken over the segments that carry a score
AvgConfidence_ScoredOnly(segs) ==
    LET scored == Cardinality({i \in 1..Len(segs) : segs[i].lp.some})
    IN IF scored > 0
       THEN [num |-> SumConfidence(segs), den |-> scored]
       ELSE [num |-> 0, den |-> 1]

\* avg_confidence, as the fraction num/den
AvgConfidence(segs) ==
    LET total_segments == Len(segs)
    IN IF total_segments > 0
       THEN [num |-> SumConfidence(segs), den |-> total_segments]
       ELSE [num |-> 0, den |-> 1]

\* total_duration
TotalDuration(segs) == IF segs # <<>> THEN segs[Len(segs)].end ELSE 0

NoStats == [made |-> FALSE, total_segments |-> 0, total_duration |-> 0,
            avg_confidence |-> [num |-> 0, den |-> 1]]

Stats(segs) ==
    [made |-> TRUE, total_segments |-> Len(segs),
     total_duration |-> TotalDuration(segs),
     avg_confidence |-> AvgConfidence(segs)]

NoFirst == [result |-> NoResult, file |-> NoFile, exitStatus |-> "running",
            exc |-> NoExc, calls |-> <<>>]

(***************************************************************************)
(* The run                                                                 *)
(***************************************************************************)
Init ==
    /\ variant \in {"basic", "pb"}
    /\ argv \in Argvs
    /\ audioExists \in BOOLEAN
    /\ pc = "parse"
    /\ args = NoArgs
    /\ \E f \in {NoFile, OldFile} :
          /\ file = f
          /\ env = [NoEnv EXCEPT !.file0 = f]
    /\ calls = <<>>
    /\ stdout = <<>>
    /\ audio_duration = NoNum
    /\ cb = NoCb
    /\ result = NoResult
    /\ stats = NoStats
    /\ exc = NoExc
    /\ exitStatus = "running"
    /\ run = 1
    /\ first = NoFirst

\* main(): parser.parse_args(), outside the try block
Parse ==
    /\ pc = "parse"
    /\ \E o \in Pick("parse", {"ok", "KeyboardInterrupt"}) :
          /\ env' = [env EXCEPT !.parse = o]
          /\ IF o = "KeyboardInterrupt"
             THEN /\ exc' = [type |-> "KeyboardInterrupt", origin |-> "parse"]
                  /\ exitStatus' = "SIGINT"
                  /\ pc' = "done"
                  /\ UNCHANGED <<args, stdout>>
             ELSE /\ exc' = exc
                  /\ CASE ParseArgs(variant, argv) = "error" ->
                            /\ exitStatus' = "2"
                            /\ pc' = "done"
                            /\ UNCHANGED <<args, stdout>>
                       [] ParseArgs(variant, argv) = "help" ->
                            /\ exitStatus' = "0"
                            /\ pc' = "done"
                            /\ stdout' = Append(stdout, Msg("help", "main"))
                            /\ args' = args
                       [] OTHER ->
                            /\ args' = Namespace(argv)
                            /\ pc' = "exists"
                            /\ UNCHANGED <<exitStatus, stdout>>
    /\ UNCHANGED <<variant, argv, audioExists, calls, file, audio_duration,
                   cb, result, stats, run, first>>

\* transcribe_audio: the existence check
CheckExists ==
    /\ pc = "exists"
    /\ calls' = Append(calls, "os.path.exists")
    /\ IF InputMissing(audioExists)
       THEN Raise("FileNotFoundError", "input", stdout)
       ELSE /\ pc' = "ext"
            /\ UNCHANGED <<exc, stdout, exitStatus>>
    /\ UNCHANGED <<variant, argv, audioExists, args, env, file,
                   audio_duration, cb, result, stats, run, first>>

\* transcribe_audio: the extension check
CheckExtension ==
    /\ pc = "ext"
    /\ stdout' = IF NeedsWarning(args.audio_file)
                 THEN stdout \o << Msg("Advertencia", Lower(PathSuffix(args.audio_file))),
                                   Msg("Formatos soportados", <<>>) >>
                 ELSE stdout
    /\ pc' = "load"
    /\ UNCHANGED <<variant, argv, audioExists, args, env, calls, file,
                   audio_duration, cb, result, stats, exc, exitStatus, run, first>>

\* transcribe_audio: whisper.load_model(model_size)
LoadModel ==
    /\ pc = "load"
    /\ calls' = Append(calls, "whisper.load_model")
    /\ \E o \in Pick("load", {"ok", "RuntimeError", "FileNotFoundError", "KeyboardInterrupt"}) :
          /\ env' = [env EXCEPT !.load = o]
          /\ IF o = "ok"
             THEN /\ stdout' = stdout \o << Msg("Cargando modelo", args.model),
                                            Msg("Modelo cargado", "time") >>
                  /\ pc' = IF variant = "pb" THEN "probe" ELSE "transcribe"
                  /\ UNCHANGED <<exc, exitStatus>>
             ELSE Raise(o, "load_model", Append(stdout, Msg("Cargando modelo", args.model)))
    /\ UNCHANGED <<variant, argv, audioExists, args, file, audio_duration,
                   cb, result, stats, run, first>>

\* transcribe_audio (pb): audio_duration = get_audio_duration(...) if
\* show_progress else None, and the print of the duration
Probe ==
    /\ pc = "probe"
    /\ IF ShowProgress
       THEN \E o \in Pick("probe", {"ok", "missing", "nonzero", "garbage", "KeyboardInterrupt"}) :
            \E d \in (IF o = "ok" THEN Durations ELSE {0}) :
               LET got == GetAudioDuration(o, d)
               IN /\ env' = [env EXCEPT !.probe = o, !.duration = d]
                  /\ calls' = Append(calls, "ffprobe")
                  /\ IF got.raised # "none"
                     THEN /\ Raise(got.raised, "ffprobe", stdout)
                          /\ UNCHANGED audio_duration
                     ELSE /\ audio_duration' = got.value
                          /\ stdout' = IF TruthyNum(got.value)
                                       THEN Append(stdout, Msg("Duracion del audio", got.value.v))
                                       ELSE stdout
                          /\ pc' = "transcribe"
                          /\ UNCHANGED <<exc, exitStatus>>
       ELSE /\ audio_duration' = NoNum
            /\ pc' = "transcribe"
            /\ UNCHANGED <<env, calls, stdout, exc, exitStatus>>
    /\ UNCHANGED <<variant, argv, audioExists, args, file, cb, result, stats,
                   run, first>>

\* transcribe_audio: the progress callback is set up (pb) and
\* model.transcribe is called; in pb an exception passes the finally clause
Transcribe ==
    /\ pc = "transcribe"
    /\ LET out == Append(stdout, Msg("Transcribiendo archivo", args.audio_file))
           progress_callback == IF ShowProgress THEN CbInit(audio_duration) ELSE NoCb
       IN /\ calls' = Append(calls, IF TruthyStr(args.language)
                                    THEN "model.transcribe(language)"
                                    ELSE "model.transcribe")
          /\ \E o \in Pick("transcribe", {"ok", "RuntimeError", "FileNotFoundError", "KeyboardInterrupt"}) :
             \E r \in (IF o # "ok" THEN {NoResult}
                       ELSE IF env.transcribe = "unset" THEN Results ELSE {env.result}) :
                /\ env' = [env EXCEPT !.transcribe = o, !.result = r]
                /\ IF o = "ok"
                   THEN /\ result' = r
                        /\ cb' = progress_callback
                        /\ stdout' = IF variant = "pb" THEN out
                                     ELSE Append(out, Msg("Transcripcion completada", "time"))
                        /\ pc' = IF variant = "pb" THEN "segments" ELSE "save"
                        /\ UNCHANGED <<exc, exitStatus>>
                   ELSE /\ result' = result
                        /\ cb' = IF progress_callback.made
                                 THEN CbClose(progress_callback)
                                 ELSE progress_callback
                        /\ Raise(o, "transcribe", out)
    /\ UNCHANGED <<variant, argv, audioExists, args, file, audio_duration,
                   stats, run, first>>

\* transcribe_audio (pb): the bar over the segments of the result, the
\* finally clause, and the print of the time taken
SegmentLoop ==
    /\ pc = "segments"
    /\ IF ShowProgress /\ cb.made
       THEN /\ calls' = Append(calls, "tqdm")
            /\ \E o \in Pick("segments", {"ok", "KeyboardInterrupt"}) :
                  /\ env' = [env EXCEPT !.segments = o]
                  /\ cb' = CbClose(cb)
                  /\ IF o = "KeyboardInterrupt"
                     THEN Raise(o, "segments", stdout)
                     ELSE IF ~WellFormed(result)
                     THEN Raise("KeyError", "segments", stdout)
                     ELSE /\ stdout' = Append(stdout, Msg("Transcripcion completada", "time"))
                          /\ pc' = "save"
                          /\ UNCHANGED <<exc, exitStatus>>
       ELSE /\ cb' = IF cb.made THEN CbClose(cb) ELSE cb
            /\ stdout' = Append(stdout, Msg("Transcripcion completada", "time"))
            /\ pc' = "save"
            /\ UNCHANGED <<env, calls, exc, exitStatus>>
    /\ UNCHANGED <<variant, argv, audioExists, args, file, audio_duration,
                   result, stats, run, first>>

\* transcribe_audio: `if output_file:` open, write, print; then return
Save ==
    /\ pc = "save"
    /\ IF TruthyStr(args.output)
       THEN /\ calls' = Append(calls, "open")
            /\ \E o \in Pick("save", {"ok", "open:FileNotFoundError", "open:PermissionError",
                                      "write:OSError", "KeyboardInterrupt"}) :
                  /\ env' = [env EXCEPT !.save = o]
                  /\ CASE o = "ok" ->
                            /\ file' = WriteFile(file, result.text)
                            /\ stdout' = Append(stdout, Msg("Transcripcion guardada", args.output.v))
                            /\ pc' = "print"
                            /\ UNCHANGED <<exc, exitStatus>>
                       [] o = "open:FileNotFoundError" ->
                            /\ file' = file
                            /\ Raise("FileNotFoundError", "open", stdout)
                       [] o = "open:PermissionError" ->
                            /\ file' = file
                            /\ Raise("PermissionError", "open", stdout)
                       [] o = "write:OSError" ->
                            /\ file' = Truncated
                            /\ Raise("OSError", "write", stdout)
                       [] OTHER ->
                            /\ file' \in {file, Truncated}
                            /\ Raise("KeyboardInterrupt", "save", stdout)
       ELSE /\ pc' = "print"
            /\ UNCHANGED <<env, calls, file, stdout, exc, exitStatus>>
    /\ UNCHANGED <<variant, argv, audioExists, args, audio_duration, cb,
                   result, stats, run, first>>

\* main(): the transcript is printed
PrintResult ==
    /\ pc = "print"
    /\ \E o \in Pick("print", {"ok", "KeyboardInterrupt"}) :
          /\ env' = [env EXCEPT !.print = o]
          /\ IF o = "ok"
             THEN /\ stdout' = stdout \o << Msg("TRANSCRIPCION", "header"),
                                            Msg("text", result.text) >>
                  /\ pc' = IF args.verbose THEN "verbose" ELSE "done"
                  /\ exitStatus' = IF args.verbose THEN exitStatus ELSE "0"
                  /\ exc' = exc
             ELSE Raise(o, "print", stdout)
    /\ UNCHANGED <<variant, argv, audioExists, args, calls, file,
                   audio_duration, cb, result, stats, run, first>>

\* main(): `if args.verbose:` the language, the statistics (pb) and one
\* line for each segment
PrintVerbose ==
    /\ pc = "verbose"
    /\ \E o \in Pick("verbose", {"ok", "KeyboardInterrupt"}) :
          LET head == stdout \o << Msg("INFORMACION DETALLADA", "header"),
                                   Msg("Idioma detectado", result.language) >>
              st == Stats(result.segments)
              shown == IF variant = "pb"
                       THEN head \o << Msg("Total de segmentos", st.total_segments),
                                       Msg("Duracion total", Fmt2(st.total_duration)),
                                       Msg("Confianza promedio", st.avg_confidence) >>
                       ELSE head
              lines == Append(shown, Msg("Segmentos", "header"))
                          \o SegmentLines(variant, result.segments)
          IN /\ env' = [env EXCEPT !.verbose = o]
             /\ IF o = "KeyboardInterrupt"
                THEN /\ Raise(o, "verbose", stdout)
                     /\ stats' = stats
                ELSE /\ stats' = IF variant = "pb" THEN st ELSE stats
                     /\ IF ~WellFormed(result)
                        THEN Raise("KeyError", "verbose", lines)
                        ELSE /\ stdout' = lines
                             /\ pc' = "done"
                             /\ exitStatus' = "0"
                             /\ exc' = exc
    /\ UNCHANGED <<variant, argv, audioExists, args, calls, file,
                   audio_duration, cb, result, run, first>>

Next ==
    \/ Parse
    \/ CheckExists
    \/ CheckExtension
    \/ LoadModel
    \/ Probe
    \/ Transcribe
    \/ SegmentLoop
    \/ Save
    \/ PrintResult
    \/ PrintVerbose

Spec == Init /\ [][Next]_vars

(***************************************************************************)
(* The same command line run twice: with progress, then with --no-progress *)
(* and the same environment (each external call repeats its recorded       *)
(* outcome).                                                               *)
(***************************************************************************)
\* what transcribe_audio returned to main, NoResult when it raised
Returned == IF env.print # "unset" THEN result ELSE NoResult

Rerun ==
    /\ pc = "done"
    /\ run = 1
    /\ variant = "pb"
    /\ env.parse = "ok"
    /\ ParseArgs(variant, argv) = "ok"
    /\ ~argv.no_progress
    /\ first' = [result |-> Returned, file |-> file, exitStatus |-> exitStatus,
                 exc |-> exc, calls |-> calls]
    /\ run' = 2
    /\ argv' = [argv EXCEPT !.no_progress = TRUE]
    /\ pc' = "parse"
    /\ args' = NoArgs
    /\ env' = [env EXCEPT !.print = "unset"]
    /\ calls' = <<>>
    /\ stdout' = <<>>
    /\ file' = env.file0
    /\ audio_duration' = NoNum
    /\ cb' = NoCb
    /\ result' = NoResult
    /\ stats' = NoStats
    /\ exc' = NoExc
    /\ exitStatus' = "running"
    /\ UNCHANGED <<variant, audioExists>>

\* the command lines of the paired runs: progress enabled, a supported and
\* an unsupported extension, every output and verbose choice
PairArgvs ==
    { a \in GoodArgvs :
        /\ ~a.no_progress
        /\ ~a.language.some
        /\ a.audio_file.v \in { <<"a", ".", "m", "p", "3">>, <<"a", ".", "t", "x", "t">> } }

InitPair ==
    /\ Init
    /\ variant = "pb"
    /\ argv \in PairArgvs

NextPair ==
    \/ Next
    \/ Rerun

SpecPair == InitPair /\ [][NextPair]_vars

(***************************************************************************)
(* A ProgressCallback on its own: constructed with any duration, called    *)
(* with any chunks, then closed.                                           *)
(***************************************************************************)
CbDurations == {NoNum, SomeNum(0), SomeNum(500), SomeNum(2000), SomeNum(2500)}

\* chunks: with start and end attributes (end in milliseconds), or without
Chunks == { [timed |-> TRUE, end |-> e] : e \in {0, 1500, 3000} }
             \cup { [timed |-> FALSE, end |-> 0] }

InitCb ==
    /\ variant = "pb"
    /\ argv = ArgvOf(NoStr, "base", NoStr, NoStr, FALSE, FALSE, FALSE)
    /\ audioExists = FALSE
    /\ pc = "callback"
    /\ args = NoArgs
    /\ env = NoEnv
    /\ calls = <<>>
    /\ stdout = <<>>
    /\ file = NoFile
    /\ audio_duration = NoNum
    /\ cb \in {CbInit(d) : d \in CbDurations}
    /\ result = NoResult
    /\ stats = NoStats
    /\ exc = NoExc
    /\ exitStatus = "running"
    /\ run = 1
    /\ first = NoFirst

CallbackCall ==
    /\ pc = "callback"
    /\ cb.closeCalls = 0
    /\ \E chunk \in Chunks :
          /\ cb' = CbCall(cb, chunk)
          /\ calls' = IF cb.pbar.made THEN calls ELSE Append(calls, "tqdm")
    /\ UNCHANGED <<variant, argv, audioExists, pc, args, env, stdout, file,
                   audio_duration, result, stats, exc, exitStatus, run, first>>

CallbackClose ==
    /\ pc = "callback"
    /\ cb.closeCalls = 0
    /\ cb' = CbClose(cb)
    /\ UNCHANGED <<variant, argv, audioExists, pc, args, env, calls, stdout, file,
                   audio_duration, result, stats, exc, exitStatus, run, first>>

NextCb ==
    \/ CallbackCall
    \/ CallbackClose

SpecCb == InitCb /\ [][NextCb]_vars

(***************************************************************************)
(* Properties                                                              *)
(***************************************************************************)
Last(s) == s[Len(s)]
Tags(s) == {s[i].tag : i \in 1..Len(s)}
Done == pc = "done"
\* the run got past argument parsing into transcribe_audio
Entered == "os.path.exists" \in Range(calls)
ModelCalls == {"whisper.load_model", "model.transcribe", "model.transcribe(language)"}
\* transcribe_audio returned to main (main's first print comes right after)
TranscribeAudioReturned == pc \in {"print", "verbose"} \/ (Done /\ env.print # "unset")

\* C1: when the input audio path does not exist, neither load_model nor
\* transcribe nor the ffprobe probe is ever invoked, and a run that reaches
\* the existence check ends with the not-found message and exit code 1
C1_MissingInput ==
    ~audioExists =>
        /\ Range(calls) \cap (ModelCalls \cup {"ffprobe"}) = {}
        /\ (Entered /\ pc # "exists") =>
              /\ Done
              /\ exitStatus = "1"
              /\ stdout = << Msg("Error", "input") >>

C1_Witness ==
    /\ ~audioExists
    /\ Entered
    /\ Done
    /\ exitStatus = "1"

\* C2 as stated: every run ends with exit code 0 or 1, whatever ends it
C2_Original == Done => exitStatus \in {"0", "1"}

\* C2 amended: exit code 2 exactly when argparse rejects the command line;
\* death by SIGINT exactly when a KeyboardInterrupt meets no handler (the
\* basic script anywhere, either script while parsing arguments); exit code
\* 1 exactly when an Exception is raised in main's try block or (pb) a
\* KeyboardInterrupt reaches main's handler; exit code 0 otherwise
C2_ExitCodes ==
    Done =>
        LET rejected == env.parse = "ok" /\ ParseArgs(variant, argv) = "error"
            interrupted == exc.type = "KeyboardInterrupt"
            unhandled == interrupted /\ (variant = "basic" \/ exc.origin = "parse")
            failed == exc.type \notin {"none", "KeyboardInterrupt"}
        IN /\ exitStatus \in {"0", "1", "2", "SIGINT"}
           /\ exitStatus = "2" <=> rejected
           /\ exitStatus = "SIGINT" <=> unhandled
           /\ exitStatus = "1" <=> (failed \/ (interrupted /\ ~unhandled))
           /\ exitStatus = "0" <=> (~rejected /\ exc.type = "none")

C2_Witness ==
    /\ Done
    /\ variant = "basic"
    /\ exc = [type |-> "RuntimeError", origin |-> "transcribe"]
    /\ exitStatus = "1"

\* C3: when an output path is supplied and transcribe_audio returns, the
\* output file holds exactly the text of the result the model returned;
\* when none is supplied (None or the empty string) no file is opened and
\* the file is as it was
C3_OutputFile ==
    /\ (TranscribeAudioReturned /\ TruthyStr(args.output)) =>
          /\ file.exists
          /\ file.content = env.result.text
    /\ (pc # "parse" /\ ~TruthyStr(args.output)) =>
          /\ "open" \notin Range(calls)
          /\ file = env.file0

C3_Witness ==
    /\ TranscribeAudioReturned
    /\ TruthyStr(args.output)
    /\ env.file0 = OldFile
    /\ file.content = <<"h", "i">>

\* C4 as stated: the not-found report appears only when the input path does
\* not exist; every other failure gets the generic report
C4_Original ==
    (Done /\ exc.type \notin {"none", "KeyboardInterrupt"}) =>
        /\ exitStatus = "1"
        /\ Last(stdout).tag = (IF exc.origin = "input" THEN "Error" ELSE "Error inesperado")

\* C4 amended: the not-found report is printed exactly when the exception
\* is a FileNotFoundError, whether the input check, the library or open()
\* raised it; every other Exception gets the generic report; the report
\* names the failure, is the only one, and the exit code is 1
C4_Reports ==
    /\ (Done /\ exc.type \notin {"none", "KeyboardInterrupt"}) =>
          /\ exitStatus = "1"
          /\ Last(stdout).tag = (IF exc.type = "FileNotFoundError" THEN "Error" ELSE "Error inesperado")
          /\ Last(stdout).val = exc.origin
          /\ Cardinality({i \in 1..Len(stdout) : stdout[i].tag \in {"Error", "Error inesperado"}}) = 1
    /\ "Error" \in Tags(stdout) => (Done /\ exc.type = "FileNotFoundError")
    /\ "Error inesperado" \in Tags(stdout) =>
          (Done /\ exc.type \notin {"none", "KeyboardInterrupt", "FileNotFoundError"})

C4_Witness ==
    /\ Done
    /\ variant = "pb"
    /\ audioExists
    /\ exc = [type |-> "FileNotFoundError", origin |-> "open"]
    /\ Last(stdout) = Msg("Error", "open")

\* C5: in the progress variant an interrupt delivered while transcribe_audio
\* runs (model loading, the probe, inference, the segment loop, the save)
\* ends the run there: the interruption message is the last thing printed,
\* no error message is printed, and the exit code is 1
C5_Interrupt ==
    (variant = "pb" /\ \E f \in {"load", "probe", "transcribe", "segments", "save"} :
                          env[f] = "KeyboardInterrupt") =>
        /\ Done
        /\ exitStatus = "1"
        /\ Last(stdout).tag = "interrumpida"
        /\ Tags(stdout) \cap {"Error", "Error inesperado"} = {}

IsSegmentLine(m) == m.tag = "segment"
IsTextLine(m) == m.tag = "text"

\* C6: a run that ends with exit code 0 printed the text of the result once
\* and exactly; in verbose mode it printed one line for each segment, in
\* order, numbered from 1, with the segment's start and end (to the nearest
\* hundredth of a second) and its text; otherwise no segment line
C6_Printed ==
    (Done /\ exitStatus = "0" /\ env.print = "ok") =>
        LET texts == SelectSeq(stdout, IsTextLine)
            lines == SelectSeq(stdout, IsSegmentLine)
            segs == env.result.segments
        IN /\ Len(texts) = 1
           /\ texts[1].val = env.result.text
           /\ IF args.verbose
              THEN /\ Len(lines) = Len(segs)
                   /\ \A i \in 1..Len(segs) :
                         /\ lines[i].val.idx = i
                         /\ 10 * lines[i].val.start - segs[i].start \in -5..5
                         /\ 10 * lines[i].val.end - segs[i].end \in -5..5
                         /\ lines[i].val.text = segs[i].text
              ELSE lines = <<>>

C6_Witness ==
    /\ Done
    /\ exitStatus = "0"
    /\ args.verbose
    /\ Len(env.result.segments) = 2
    /\ env.result.segments[1] # env.result.segments[2]

\* the sum of the confidence scores of segments 1..k (0 for one without)
RECURSIVE C7_SumTo(_, _)
C7_SumTo(segs, k) ==
    IF k = 0 THEN 0
    ELSE C7_SumTo(segs, k - 1) + (IF segs[k].lp.some THEN segs[k].lp.v ELSE 0)

\* C7: the average confidence of the verbose statistics is the arithmetic
\* mean of the segments' confidence scores, zero for no segments; the total
\* duration is the last segment's end or 0; and with no segments the
\* statistics are computed and the run ends with exit code 0
C7_Average ==
    LET segs == env.result.segments
        n == Len(segs)
        avg == stats.avg_confidence
    IN /\ stats.made =>
             /\ avg.den > 0
             /\ n = 0 => avg.num = 0
             /\ avg.num * n = avg.den * C7_SumTo(segs, n)
             /\ stats.total_segments = n
             /\ stats.total_duration = (IF n = 0 THEN 0 ELSE segs[n].end)
       /\ (variant = "pb" /\ Done /\ env.verbose = "ok" /\ n = 0) =>
             /\ stats.made
             /\ exitStatus = "0"

C7_Witness ==
    /\ stats.made
    /\ Done
    /\ exitStatus = "0"
    /\ env.result.segments = <<SegA, SegC>>

\* the paths of AudioPaths whose extension is not a supported one
C8_Unsupported ==
    { <<"a", ".", "t", "x", "t">>, <<"a">>, <<".", "m", "p", "3">>,
      <<"d", ".", "m", "p", "3", "/", "a">> }

\* C8: for an existing input file the warning is printed exactly when the
\* extension, compared without regard to case, is not a supported one; and
\* with or without the warning the run goes on to load the model and, once
\* it is loaded, to call transcribe: the check itself never ends the run
C8_Extension ==
    (audioExists /\ Entered /\ pc \notin {"exists", "ext"}) =>
        /\ "Advertencia" \in Tags(stdout) <=> args.audio_file \in C8_Unsupported
        /\ pc # "load" => "whisper.load_model" \in Range(calls)
        /\ exc.origin # "input"
        /\ (env.load = "ok" /\ pc \notin {"probe", "transcribe"}) =>
              Range(calls) \cap {"model.transcribe", "model.transcribe(language)"} # {}

C8_Witness ==
    /\ audioExists
    /\ Done
    /\ exitStatus = "0"
    /\ args.audio_file = <<"a">>
    /\ "Advertencia" \in Tags(stdout)
    /\ "model.transcribe" \in Range(calls)

\* C9: the run with --no-progress never probes the duration and creates no
\* bar; and for a well-formed result and no interrupt, it returns the same
\* result, leaves the same output file and ends with the same exit code as
\* the run with progress under the same environment, whatever the probe did
C9_Cosmetic ==
    run = 2 =>
        /\ Range(calls) \cap {"ffprobe", "tqdm"} = {}
        /\ ~cb.made
        /\ (Done /\ WellFormed(env.result)
                 /\ first.exc.type # "KeyboardInterrupt"
                 /\ exc.type # "KeyboardInterrupt") =>
              /\ Returned = first.result
              /\ file = first.file
              /\ exitStatus = first.exitStatus

C9_Witness ==
    /\ run = 2
    /\ Done
    /\ exitStatus = "0"
    /\ first.exitStatus = "0"
    /\ env.probe = "missing"
    /\ "tqdm" \in Range(first.calls)
    /\ file.content = <<"h", "i">>
    /\ Len(Returned.segments) = 2

\* C10: the bar's position stays within 0..total, and close() closes the
\* bar if one was created
C10_Bar ==
    /\ cb.pbar.made => (0 <= cb.pbar.n /\ cb.pbar.n <= cb.pbar.total * 1000)
    /\ (cb.closeCalls > 0 /\ cb.pbar.made) => cb.pbar.closed

====
